---- MODULE Spec2Model ----
(***************************************************************************)
(* kss: the KOReader sync server of src/kss.py, as a state machine.        *)
(*                                                                         *)
(* State: the files and directories under kss_root(), the server clock,    *)
(* the REGISTRATION_DISABLED flag and, for every worker thread of the WSGI *)
(* server, the request it is handling, its local variables and its         *)
(* position in the handler. Every action is one file-system or clock       *)
(* access of a handler together with the local computation that precedes   *)
(* and follows it, so that the handlers of different threads interleave    *)
(* exactly at their system calls.                                          *)
(* The server process may die and be started again (Crash). The scripts of  *)
(* src/example are a second specification, SpecDigest, over the variable   *)
(* run.                                                                    *)
(*                                                                         *)
(* Conventions.                                                            *)
(*  - A Python str is the sequence of its "/"-separated segments: <<"A">>  *)
(*    is "A", <<"..", "B", "auth">> is "../B/auth", << >> is "".           *)
(*  - A JSON value is [num |-> n], [str |-> s] or Null; a dict is a        *)
(*    function from the keys it holds to values. Absent marks a key or a   *)
(*    header that a request leaves out.                                    *)
(*  - Every file the program touches is named <stem>.json; a path is the   *)
(*    sequence of its components below kss_root(), the last one the stem.  *)
(*  - A file's content is a sequence of cells, as dumps produces them.     *)
(***************************************************************************)
EXTENDS Integers, Sequences, FiniteSets, TLC

(***************************************************************************)
(* Bounds                                                                  *)
(***************************************************************************)
\* The server clock int(time()) runs from 1 to MaxClock.
MaxClock == 2

\* Number of requests the server accepts in one behaviour.
MaxRequests == 3

\* Worker threads of the WSGI server.
Threads == {1, 2}

(***************************************************************************)
(* JSON values and Python's view of them                                   *)
(***************************************************************************)
Absent == [absent |-> TRUE]

Null == [null |-> TRUE]

Num(n) == [num |-> n]

Str(s) == [str |-> s]

\* isinstance(v, str)
IsStr(v) == "str" \in DOMAIN v

\* isinstance(v, (int, float))
IsNum(v) == "num" \in DOMAIN v

\* bool(v): None, 0 and "" are false.
Truthy(v) ==
    IF IsNum(v) THEN v.num # 0
    ELSE IF IsStr(v) THEN v.str # << >>
    ELSE FALSE

Keys ==
    {"document", "percentage", "progress", "device", "device_id", "timestamp",
     "x-auth-user", "x-auth-key", "username", "password",
     "message", "code", "authorized"}

EmptyDict == [k \in {} |-> Null]

\* k in d
Has(d, k) == k \in DOMAIN d

\* d.get(k, None)
Get(d, k) == IF Has(d, k) THEN d[k] ELSE Null

\* d[k] = v
Put(d, k, v) == [j \in DOMAIN d \cup {k} |-> IF j = k THEN v ELSE d[j]]

\* d.setdefault(k, None)
SetDefault(d, k) == IF Has(d, k) THEN d ELSE Put(d, k, Null)

\* The dict a client sends: a key it leaves out is not in it.
With(d, k, v) == IF v = Absent THEN d ELSE Put(d, k, v)

\* The numbers float() and int() read from a str; any other str raises.
NumericStrings == {<<"40">>}

NumericValue(s) == IF s = <<"40">> THEN 40 ELSE 0

\* float(v) and int(v): [ok, val]; ok = FALSE is the exception.
ToNumber(v) ==
    IF IsNum(v) THEN [ok |-> TRUE, val |-> v]
    ELSE IF IsStr(v) /\ v.str \in NumericStrings
    THEN [ok |-> TRUE, val |-> Num(NumericValue(v.str))]
    ELSE [ok |-> FALSE, val |-> Null]

(***************************************************************************)
(* dumps / loads                                                           *)
(***************************************************************************)
LBrace == [k |-> "{", v |-> Null]

RBrace == [k |-> "}", v |-> Null]

\* Keys are written in this order.
KeyOrder ==
    <<"document", "percentage", "progress", "device", "device_id", "timestamp",
      "x-auth-user", "x-auth-key", "username", "password",
      "message", "code", "authorized">>

RECURSIVE Members(_, _)
Members(d, i) ==
    IF i > Len(KeyOrder) THEN << >>
    ELSE (IF Has(d, KeyOrder[i])
          THEN <<[k |-> KeyOrder[i], v |-> d[KeyOrder[i]]]>> ELSE << >>)
         \o Members(d, i + 1)

\* json.dumps(d): "{", one cell per member, "}".
dumps(d) == <<LBrace>> \o Members(d, 1) \o <<RBrace>>

\* A text is a JSON document iff it is "{" members "}" and nothing else.
WellFormed(text) ==
    /\ Len(text) >= 2
    /\ text[1] = LBrace
    /\ text[Len(text)] = RBrace
    /\ \A i \in 2..(Len(text) - 1) : text[i].k \in Keys

\* json.loads(text): [ok, js]; ok = FALSE is JSONDecodeError. Of two members
\* with one key the last one counts.
loads(text) ==
    IF WellFormed(text)
    THEN LET members == 2..(Len(text) - 1)
         IN  [ok |-> TRUE,
              js |-> [k \in {text[i].k : i \in members} |->
                        text[CHOOSE i \in members :
                               /\ text[i].k = k
                               /\ \A j \in members : j > i => text[j].k # k].v]]
    ELSE [ok |-> FALSE, js |-> EmptyDict]

(***************************************************************************)
(* Paths and files                                                         *)
(***************************************************************************)
\* The kernel's resolution of a relative path: ".." leaves a directory.
RECURSIVE Resolve(_, _)
Resolve(parts, stack) ==
    IF parts = << >> THEN stack
    ELSE IF Head(parts) = ".."
         THEN Resolve(Tail(parts),
                      IF stack = << >> THEN << >>
                      ELSE SubSeq(stack, 1, Len(stack) - 1))
         ELSE Resolve(Tail(parts), Append(stack, Head(parts)))

\* kss_root() / user
kss_dir(user) == user

\* kss_dir(user) / f"{file_md5}.json"
kss_path(user, file_md5) == Resolve(kss_dir(user) \o file_md5, << >>)

\* kss_dir(user) / "auth.json"
kss_auth_file(user) == Resolve(kss_dir(user) \o <<"auth">>, << >>)

\* path.parent
Parent(path) == SubSeq(path, 1, Len(path) - 1)

\* A file as open("w") leaves it: it exists and is empty.
NoFile == [exists |-> FALSE, data |-> << >>]

EmptyFile == [exists |-> TRUE, data |-> << >>]

\* write(2) of text at offset 0 of a file that holds old.
WriteAt0(old, text) == text \o SubSeq(old, Len(text) + 1, Len(old))

(***************************************************************************)
(* Requests: what clients send                                             *)
(***************************************************************************)
UserNames == {<<"A">>, <<"B">>}

Secrets == {<<"k1">>, <<"k2">>}

\* x-auth-user and x-auth-key: missing, or a str.
HeaderUsers == {Absent} \cup {Str(u) : u \in UserNames}

HeaderKeys == {Absent} \cup {Str(k) : k \in Secrets}

\* The body of POST /users/create.
RegisterUsernames == {Absent} \cup {Str(u) : u \in UserNames}

RegisterPasswords == {Absent, Str(<< >>), Num(7)} \cup {Str(k) : k \in Secrets}

\* The body of PUT /syncs/progress and the <document> of GET /syncs/progress/.
Documents == {<<"d1">>, <<"auth">>, <<"..", "B", "auth">>}

PushDocuments == {Absent, Str(<< >>)} \cup {Str(d) : d \in Documents}

Percentages == {Absent, Num(0), Num(40), Str(<<"abc">>)}

Devices == {Absent, Str(<<"X">>)}

\* A timestamp the client puts in the body: no value the server clock takes.
ClientTimestamp == Num(9)

Timestamps == {Absent, ClientTimestamp}

\* The bodies of PUT /syncs/progress that clients send here: next to the
\* document a body has at most one of percentage, device and timestamp, and
\* a body without a document has at most a device.
PushBody(document, percentage, device, timestamp) ==
    /\ Cardinality({f \in {percentage, device, timestamp} : f # Absent}) <= 1
    /\ ~Truthy(document) => percentage = Absent /\ timestamp = Absent

\* The URL converter of the route takes one path segment.
PullDocuments == {d \in Documents : Len(d) = 1}

Routes == {"register", "login", "push", "pull"}

FilePaths ==
    {kss_auth_file(u) : u \in UserNames}
        \cup {kss_path(u, d) : u \in UserNames, d \in Documents}

(***************************************************************************)
(* Responses                                                               *)
(***************************************************************************)
NoResponse == [status |-> 0, body |-> EmptyDict]

\* jsonify({"message": message, "code": code}), http_code
kss_error(http_code, message, code) ==
    [status |-> http_code,
     body |-> Put(Put(EmptyDict, "message", Str(<<message>>)), "code", Num(code))]

\* jsonify(**kwargs), http_code
kss_response(http_code, kwargs) == [status |-> http_code, body |-> kwargs]

Unauthorized == kss_error(401, "Unauthorized", 2001)

InvalidRequest == kss_error(403, "Invalid request", 2003)

\* What the WSGI server answers when the handler raises.
InternalServerError == [status |-> 500, body |-> EmptyDict]

(***************************************************************************)
(* State                                                                   *)
(***************************************************************************)
VARIABLES
    fs,                     \* FilePaths -> [exists, data]: the files under kss_root()
    dirs,                   \* the directories under kss_root()
    now,                    \* int(time())
    REGISTRATION_DISABLED,  \* KSS_DISABLE_REGISTRATION, read at import
    th,                     \* Threads -> the request a thread handles and its locals
    nreq,                   \* requests accepted so far
    creds,                  \* UserNames -> the secret of the first 201 of /users/create
    pushes,                 \* <<user, document>> -> pushes that went on to store a record
    run                     \* a run of example/partial_md5.py: its input and its output

vars == <<fs, dirs, now, REGISTRATION_DISABLED, th, nreq, creds, pushes, run>>

\* No run of the example scripts: the server does not call them.
NoRun ==
    [pc |-> "none", file |-> << >>, step |-> 0, size |-> 0, digest |-> << >>,
     full |-> << >>, at |-> 0, other |-> << >>]

Idle ==
    [pc |-> "idle", route |-> "none", headers |-> EmptyDict, is_json |-> TRUE,
     json |-> EmptyDict, document |-> << >>, user |-> << >>, js |-> EmptyDict,
     path |-> << >>, res |-> NoResponse, error |-> "", id |-> 0, prior |-> {},
     began |-> 0]

Init ==
    /\ fs = [p \in FilePaths |-> NoFile]
    /\ dirs = {}
    /\ now = 1
    /\ REGISTRATION_DISABLED \in BOOLEAN
    /\ th = [t \in Threads |-> Idle]
    /\ nreq = 0
    /\ creds = [u \in UserNames |-> Absent]
    /\ pushes = [k \in UserNames \X Documents |-> 0]
    /\ run = NoRun

\* The handler returns res (or raises error): its locals are gone.
Return(t, res, error) ==
    th' = [th EXCEPT ![t] = [@ EXCEPT !.pc = "done", !.res = res, !.error = error,
                                      !.user = << >>, !.js = EmptyDict,
                                      !.path = << >>]]

Goto(t, pc) == th' = [th EXCEPT ![t].pc = pc]

\* The threads whose request had been answered when this one is taken.
Answered(t) == {r \in Threads \ {t} : th[r].pc = "done"}

\* A free thread takes the next request off the socket: its slot, fresh.
Fresh(t, route) ==
    [Idle EXCEPT !.route = route, !.id = nreq + 1, !.prior = Answered(t),
                 !.began = now]

\* The request goes to the first thread that has not worked yet and, when all
\* have, to one whose last answer is not more recent than another's (the
\* threads are alike: this fixes only which answered requests stay in view).
Free(t) ==
    /\ nreq < MaxRequests
    /\ \/ th[t].pc = "idle" /\ \A s \in Threads : s < t => th[s].pc # "idle"
       \/ /\ th[t].pc = "done"
          /\ \A s \in Threads : th[s].pc # "idle"
          /\ \A s \in th[t].prior : th[s].pc # "done"

\* Thread t goes on with slot; a request it has just taken is no longer
\* prior to the others'.
Step(t, slot) ==
    th' = [s \in Threads |->
             IF s = t THEN slot
             ELSE IF Free(t) THEN [th[s] EXCEPT !.prior = @ \ {t}] ELSE th[s]]

\* The server clock advances.
Tick ==
    /\ now < MaxClock
    /\ now' = now + 1
    /\ UNCHANGED <<run, fs, dirs, REGISTRATION_DISABLED, th, nreq, creds, pushes>>

\* The server process dies while it handles requests and is started again:
\* the requests in flight are lost with their threads, the files and the
\* directories stay as the last system call left them, and the flag is read
\* from the environment again.
Crash ==
    /\ \E t \in Threads : th[t].pc \notin {"idle", "done"}
    /\ th' = [t \in Threads |-> Idle]
    /\ REGISTRATION_DISABLED' \in BOOLEAN
    /\ UNCHANGED <<run, fs, dirs, now, nreq, creds, pushes>>

\* path.exists()
Exists(fsys, path) == fsys[path].exists

\* path.parent.mkdir(parents=True): the directory and its missing ancestors.
Mkdir(ds, dir) == ds \cup {SubSeq(dir, 1, n) : n \in 1..Len(dir)}

(***************************************************************************)
(* POST /users/create                                                      *)
(***************************************************************************)
\* The existence check left out: a registered name can be registered again.
AlreadyRegisteredNever(fsys, user) == FALSE

\* Lines 241-242: auth_file.exists()
AlreadyRegistered(fsys, user) == Exists(fsys, kss_auth_file(user))

BadUsername(json) ==
    ~(Truthy(Get(json, "username")) /\ IsStr(Get(json, "username")))

BadPassword(json) ==
    ~Truthy(Get(json, "password")) \/ ~IsStr(Get(json, "password"))

\* The body checked before the flag: a bad body is answered 2003 and a
\* registered name 2002 even when registration is disabled.
RegisterRefusalBodyFirst(is_json, json) ==
    IF ~is_json \/ BadUsername(json) \/ BadPassword(json)
    THEN InvalidRequest
    ELSE IF AlreadyRegistered(fs, json["username"].str)
    THEN kss_error(402, "Username is already registered", 2002)
    ELSE IF REGISTRATION_DISABLED
    THEN kss_error(403, "User registration disabled", 3001)
    ELSE NoResponse

\* Lines 217-244: the error register returns before it writes anything,
\* NoResponse when every check passes.
RegisterRefusal(is_json, json) ==
    IF REGISTRATION_DISABLED
    THEN kss_error(403, "User registration disabled", 3001)
    ELSE IF ~is_json
    THEN InvalidRequest
    ELSE IF BadUsername(json)
    THEN InvalidRequest
    ELSE IF BadPassword(json)
    THEN InvalidRequest
    ELSE IF AlreadyRegistered(fs, json["username"].str)
    THEN kss_error(402, "Username is already registered", 2002)
    ELSE NoResponse

\* Lines 217-244: the checks of the body, then auth_file.exists().
register_exists(t) ==
    /\ Free(t)
    /\ nreq' = nreq + 1
    /\ \E is_json \in BOOLEAN, username \in RegisterUsernames,
          password \in RegisterPasswords :
         LET json == IF is_json
                     THEN With(With(EmptyDict, "username", username),
                               "password", password)
                     ELSE EmptyDict
             req == [Fresh(t, "register") EXCEPT !.is_json = is_json, !.json = json]
             done(res) == Step(t, [req EXCEPT !.pc = "done", !.res = res])
         IN  /\ is_json \/ (username = Absent /\ password = Absent)
             /\ IF RegisterRefusal(is_json, json) # NoResponse
                THEN done(RegisterRefusal(is_json, json))
                ELSE Step(t, [req EXCEPT !.pc = "register_parent",
                                         !.user = username.str,
                                         !.js = Put(Put(EmptyDict, "x-auth-user", username),
                                                    "x-auth-key", password),
                                         !.path = kss_auth_file(username.str)])
    /\ UNCHANGED <<run, fs, dirs, now, REGISTRATION_DISABLED, creds, pushes>>

\* Line 246: auth_file.parent.exists()
register_parent(t) ==
    /\ th[t].pc = "register_parent"
    /\ IF Parent(th[t].path) \in dirs
       THEN Goto(t, "register_open")
       ELSE Goto(t, "register_mkdir")
    /\ UNCHANGED <<run, fs, dirs, now, REGISTRATION_DISABLED, nreq, creds, pushes>>

\* Line 248: auth_file.parent.mkdir(parents=True); FileExistsError if another
\* thread made the directory since line 246.
register_mkdir(t) ==
    /\ th[t].pc = "register_mkdir"
    /\ IF Parent(th[t].path) \in dirs
       THEN /\ Return(t, InternalServerError, "FileExistsError")
            /\ dirs' = dirs
       ELSE /\ Goto(t, "register_open")
            /\ dirs' = Mkdir(dirs, Parent(th[t].path))
    /\ UNCHANGED <<run, fs, now, REGISTRATION_DISABLED, nreq, creds, pushes>>

\* Line 251, write_text: open(auth_file, "w") creates or truncates the file.
register_open(t) ==
    /\ th[t].pc = "register_open"
    /\ fs' = [fs EXCEPT ![th[t].path] = EmptyFile]
    /\ Goto(t, "register_write")
    /\ UNCHANGED <<run, dirs, now, REGISTRATION_DISABLED, nreq, creds, pushes>>

\* Lines 251-254, write_text: the text is written at offset 0 when the file is
\* closed; then 201.
register_write(t) ==
    /\ th[t].pc = "register_write"
    /\ fs' = [fs EXCEPT ![th[t].path].data = WriteAt0(@, dumps(th[t].js))]
    /\ Return(t, kss_response(201, Put(EmptyDict, "username", Str(th[t].user))), "")
    /\ creds' = IF creds[th[t].user] = Absent
                THEN [creds EXCEPT ![th[t].user] = th[t].js["x-auth-key"]]
                ELSE creds
    /\ UNCHANGED <<run, dirs, now, REGISTRATION_DISABLED, nreq, pushes>>

(***************************************************************************)
(* kss_auth, and GET /users/auth                                           *)
(***************************************************************************)
\* What the handler does with the user kss_auth returned.
Authorized(t, slot) ==
    CASE slot.route = "login" ->
            Step(t, [slot EXCEPT !.pc = "done", !.user = << >>,
                                 !.res = kss_response(200,
                                           Put(EmptyDict, "authorized", Str(<<"OK">>)))])
      [] slot.route = "push" -> Step(t, [slot EXCEPT !.pc = "push"])
      [] slot.route = "pull" -> Step(t, [slot EXCEPT !.pc = "pull"])

\* kss_auth returned None: every handler answers 401.
Refused(t, slot) ==
    Step(t, [slot EXCEPT !.pc = "done", !.user = << >>, !.res = Unauthorized])

\* Lines 148-160: the two headers, then auth_file.exists().
kss_auth_exists(t) ==
    /\ Free(t)
    /\ nreq' = nreq + 1
    /\ \E route \in Routes \ {"register"}, user \in HeaderUsers,
          password_md5 \in HeaderKeys, document \in PullDocuments \cup {<< >>} :
         LET slot == [Fresh(t, route) EXCEPT
                        !.headers = With(With(EmptyDict, "x-auth-user", user),
                                         "x-auth-key", password_md5),
                        !.document = document]
         IN  /\ (route = "pull") = (document # << >>)
             /\ IF ~Truthy(Get(slot.headers, "x-auth-user"))
                THEN Refused(t, slot)
                ELSE IF ~Truthy(Get(slot.headers, "x-auth-key"))
                THEN Refused(t, slot)
                ELSE IF ~Exists(fs, kss_auth_file(user.str))
                THEN Refused(t, slot)
                ELSE Step(t, [slot EXCEPT !.pc = "kss_auth_load", !.user = user.str])
    /\ UNCHANGED <<run, fs, dirs, now, REGISTRATION_DISABLED, creds, pushes>>

\* auth["x-auth-user"] == user and auth["x-auth-key"] == password_md5
Matches(auth, user, password_md5) ==
    auth["x-auth-user"] = user /\ auth["x-auth-key"] = password_md5

\* Lines 162-168: load(file) and the comparison; then the handler goes on.
kss_auth_load(t) ==
    /\ th[t].pc = "kss_auth_load"
    /\ LET auth == loads(fs[kss_auth_file(th[t].user)].data)
       IN  IF ~auth.ok
           THEN Return(t, InternalServerError, "JSONDecodeError")
           ELSE IF ~Has(auth.js, "x-auth-user") \/ ~Has(auth.js, "x-auth-key")
           THEN Return(t, InternalServerError, "KeyError")
           ELSE IF Matches(auth.js, th[t].headers["x-auth-user"],
                           th[t].headers["x-auth-key"])
           THEN Authorized(t, th[t])
           ELSE Refused(t, th[t])
    /\ UNCHANGED <<run, fs, dirs, now, REGISTRATION_DISABLED, nreq, creds, pushes>>

(***************************************************************************)
(* PUT /syncs/progress                                                     *)
(***************************************************************************)
\* Lines 281-285: the percentage is coerced when it is truthy.
Coerce(js) ==
    IF Truthy(Get(js, "percentage"))
    THEN Put(js, "percentage",
             IF ToNumber(js["percentage"]).ok
             THEN ToNumber(js["percentage"]).val ELSE Null)
    ELSE js

\* The timestamp set only when the body has none: the client's is kept.
PushRecordKeepingTimestamp(js, ts) ==
    LET rec == SetDefault(SetDefault(SetDefault(Coerce(js), "progress"), "device"),
                          "device_id")
    IN  IF Has(rec, "timestamp") THEN rec ELSE Put(rec, "timestamp", Num(ts))

\* Lines 281-292: the record push stores for the body js at server time ts.
PushRecord(js, ts) ==
    Put(SetDefault(SetDefault(SetDefault(Coerce(js), "progress"), "device"),
                   "device_id"),
        "timestamp", Num(ts))

\* Lines 272-297: the checks of the body, the record and its timestamp.
push_stamp(t) ==
    /\ th[t].pc = "push"
    /\ \E is_json \in BOOLEAN, document \in PushDocuments,
          percentage \in Percentages, device \in Devices,
          timestamp \in Timestamps :
         LET json == IF is_json
                     THEN With(With(With(With(EmptyDict, "document", document),
                                         "percentage", percentage),
                                    "device", device), "timestamp", timestamp)
                     ELSE EmptyDict
             req == [th[t] EXCEPT !.is_json = is_json, !.json = json]
             done(res) ==
                 th' = [th EXCEPT ![t] = [req EXCEPT !.pc = "done", !.res = res,
                                                     !.user = << >>]]
         IN  /\ PushBody(document, percentage, device, timestamp)
             /\ is_json \/ json = EmptyDict
             /\ IF ~is_json
                THEN done(InvalidRequest)
                ELSE IF ~Truthy(Get(json, "document"))
                THEN done(kss_error(403, "Field 'document' not provided.", 2004))
                ELSE th' = [th EXCEPT ![t] =
                              [req EXCEPT !.pc = "push_parent",
                                          !.js = PushRecord(json, now),
                                          !.path = kss_path(th[t].user, document.str)]]
             /\ pushes' = IF is_json /\ Truthy(Get(json, "document"))
                          THEN [pushes EXCEPT ![<<th[t].user, document.str>>] = @ + 1]
                          ELSE pushes
    /\ UNCHANGED <<run, fs, dirs, now, REGISTRATION_DISABLED, nreq, creds>>

\* Line 298: path.parent.exists()
push_parent(t) ==
    /\ th[t].pc = "push_parent"
    /\ IF Parent(th[t].path) \in dirs
       THEN Goto(t, "push_open")
       ELSE Goto(t, "push_mkdir")
    /\ UNCHANGED <<run, fs, dirs, now, REGISTRATION_DISABLED, nreq, creds, pushes>>

\* Line 301: path.parent.mkdir(parents=True)
push_mkdir(t) ==
    /\ th[t].pc = "push_mkdir"
    /\ IF Parent(th[t].path) \in dirs
       THEN /\ Return(t, InternalServerError, "FileExistsError")
            /\ dirs' = dirs
       ELSE /\ Goto(t, "push_open")
            /\ dirs' = Mkdir(dirs, Parent(th[t].path))
    /\ UNCHANGED <<run, fs, now, REGISTRATION_DISABLED, nreq, creds, pushes>>

\* Line 304, write_text: open(path, "w") creates or truncates the file.
push_open(t) ==
    /\ th[t].pc = "push_open"
    /\ fs' = [fs EXCEPT ![th[t].path] = EmptyFile]
    /\ Goto(t, "push_write")
    /\ UNCHANGED <<run, dirs, now, REGISTRATION_DISABLED, nreq, creds, pushes>>

\* Lines 304-307, write_text: the text is written at offset 0 when the file is
\* closed; then 200 with the document and the timestamp.
push_write(t) ==
    /\ th[t].pc = "push_write"
    /\ fs' = [fs EXCEPT ![th[t].path].data = WriteAt0(@, dumps(th[t].js))]
    /\ Return(t, kss_response(200, Put(Put(EmptyDict, "document", th[t].js["document"]),
                                       "timestamp", th[t].js["timestamp"])), "")
    /\ UNCHANGED <<run, dirs, now, REGISTRATION_DISABLED, nreq, creds, pushes>>

(***************************************************************************)
(* GET /syncs/progress/<document>                                          *)
(***************************************************************************)
\* A pull that creates the record it does not find.
pull_exists_creating(t) ==
    /\ th[t].pc = "pull"
    /\ LET path == kss_path(th[t].user, th[t].document)
       IN  IF ~Exists(fs, path)
           THEN /\ Return(t, kss_response(200, Put(EmptyDict, "document",
                                                    Str(th[t].document))), "")
                /\ fs' = [fs EXCEPT ![path] = EmptyFile]
           ELSE /\ th' = [th EXCEPT ![t] = [@ EXCEPT !.pc = "pull_read", !.path = path]]
                /\ fs' = fs
    /\ UNCHANGED <<run, dirs, now, REGISTRATION_DISABLED, nreq, creds, pushes>>

\* Lines 318-322: path.exists()
pull_exists(t) ==
    /\ th[t].pc = "pull"
    /\ LET path == kss_path(th[t].user, th[t].document)
       IN  IF ~Exists(fs, path)
           THEN Return(t, kss_response(200, Put(EmptyDict, "document",
                                                Str(th[t].document))), "")
           ELSE th' = [th EXCEPT ![t] = [@ EXCEPT !.pc = "pull_read", !.path = path]]
    /\ UNCHANGED <<run, fs, dirs, now, REGISTRATION_DISABLED, nreq, creds, pushes>>

\* Lines 336-343: a field is copied when it is truthy.
Copy(res, js, k) == IF Truthy(Get(js, k)) THEN Put(res, k, js[k]) ELSE res

\* Lines 328-332 and 345-349: a truthy field is copied as a number, and
\* dropped when it is not one.
CopyNumber(res, js, k) ==
    IF Truthy(Get(js, k)) /\ ToNumber(js[k]).ok
    THEN Put(res, k, ToNumber(js[k]).val)
    ELSE res

\* Lines 327-355: the body of the answer for the stored record js.
PullResult(js) ==
    CopyNumber(Copy(Copy(Copy(CopyNumber(EmptyDict, js, "percentage"),
                              js, "progress"), js, "device"), js, "device_id"),
               js, "timestamp")

\* Lines 324-355: loads(path.read_text()) and the answer.
pull_read(t) ==
    /\ th[t].pc = "pull_read"
    /\ LET js == loads(fs[th[t].path].data)
       IN  IF ~js.ok
           THEN Return(t, InternalServerError, "JSONDecodeError")
           ELSE Return(t, kss_response(200, PullResult(js.js)), "")
    /\ UNCHANGED <<run, fs, dirs, now, REGISTRATION_DISABLED, nreq, creds, pushes>>

(***************************************************************************)
(* The server                                                              *)
(***************************************************************************)
Next ==
    \/ Tick
    \/ Crash
    \/ \E t \in Threads :
         \/ register_exists(t)
         \/ register_parent(t)
         \/ register_mkdir(t)
         \/ register_open(t)
         \/ register_write(t)
         \/ kss_auth_exists(t)
         \/ kss_auth_load(t)
         \/ push_stamp(t)
         \/ push_parent(t)
         \/ push_mkdir(t)
         \/ push_open(t)
         \/ push_write(t)
         \/ pull_exists(t)
         \/ pull_read(t)

Spec == Init /\ [][Next]_vars

(***************************************************************************)
(* example/partial_md5.py and example/md5name.py                           *)
(*                                                                         *)
(* A byte is 0 or 1 and a stream is a sequence of bytes. hashlib.md5 is    *)
(* the ideal hash: the digest of an accumulator is the byte sequence       *)
(* update() has been given, so that two digests are equal exactly when     *)
(* the accumulated sequences are.                                          *)
(***************************************************************************)
\* Longest stream, and largest step and size, of a run.
MaxLen == 5

MaxStep == 3

MaxSize == 3

\* md5name.py line 22: file.read(4096)
ChunkSize == 4096

\* partial_md5.py line 25: range(0, 10)
Rounds == 10

Bytes == {0, 1}

Streams == UNION {[1..n -> Bytes] : n \in 0..MaxLen}

Min(a, b) == IF a <= b THEN a ELSE b

\* file.seek(pos, 0); file.read(n): up to n bytes from offset pos, none at
\* or after the end of the stream.
Read(file, pos, n) == SubSeq(file, pos + 1, Min(pos + n, Len(file)))

\* The shift by i instead of 2 * i: the offsets double instead of quadruple.
ShlHalf(x, n) == x * 2 ^ (n \div 2)

\* x << n
Shl(x, n) == x * 2 ^ n

\* m.hexdigest()
hexdigest(m) == [md5 |-> m]

\* partial_md5.py lines 25-32: the loop from round i on, m accumulated so far.
RECURSIVE partial_md5_loop(_, _, _, _, _)
partial_md5_loop(file, step, size, m, i) ==
    IF i >= Rounds THEN m
    ELSE LET sample == Read(file, Shl(step, 2 * i), size)
         IN  IF sample # << >>
             THEN partial_md5_loop(file, step, size, m \o sample, i + 1)
             ELSE m

\* The first sample left out of the accumulator.
partial_md5_without_first(file, step, size) ==
    hexdigest(partial_md5_loop(file, step, size, << >>, 0))

\* partial_md5.py lines 19-34
partial_md5(file, step, size) ==
    hexdigest(partial_md5_loop(file, step, size, Read(file, 0, size), 0))

\* md5name.py lines 21-26: the loop at offset pos, sum accumulated so far.
RECURSIVE md5_loop(_, _, _)
md5_loop(file, pos, sum) ==
    LET data == Read(file, pos, ChunkSize)
    IN  IF data = << >> THEN sum
        ELSE md5_loop(file, pos + Len(data), sum \o data)

\* md5name.py lines 19-28: the digest of the whole stream.
md5(file) == hexdigest(md5_loop(file, 0, << >>))

\* The stream with the byte at offset k - 1 changed.
Flip(file, k) == [file EXCEPT ![k] = 1 - @]

\* The scripts are run on a stream; the server is not running.
DigestInit ==
    /\ fs = [p \in FilePaths |-> NoFile]
    /\ dirs = {}
    /\ now = 1
    /\ REGISTRATION_DISABLED = FALSE
    /\ th = [t \in Threads |-> Idle]
    /\ nreq = 0
    /\ creds = [u \in UserNames |-> Absent]
    /\ pushes = [k \in UserNames \X Documents |-> 0]
    /\ \E file \in Streams, step \in 0..MaxStep, size \in 0..MaxSize :
          run = [NoRun EXCEPT !.pc = "input", !.file = file, !.step = step,
                              !.size = size]

\* partial_md5.py line 63 and md5name.py line 61: both digests of the stream.
md5digest ==
    /\ run.pc = "input"
    /\ run' = [run EXCEPT !.pc = "hashed",
                          !.digest = partial_md5(run.file, run.step, run.size),
                          !.full = md5(run.file)]
    /\ UNCHANGED <<fs, dirs, now, REGISTRATION_DISABLED, th, nreq, creds, pushes>>

\* partial_md5.py line 63 again, on the stream with one byte changed.
md5digest_changed ==
    /\ run.pc = "hashed"
    /\ \E k \in 1..Len(run.file) :
          run' = [run EXCEPT !.pc = "changed", !.at = k,
                             !.other = partial_md5(Flip(run.file, k), run.step,
                                                   run.size)]
    /\ UNCHANGED <<fs, dirs, now, REGISTRATION_DISABLED, th, nreq, creds, pushes>>

DigestNext == md5digest \/ md5digest_changed

SpecDigest == DigestInit /\ [][DigestNext]_vars

(***************************************************************************)
(* Properties                                                              *)
(***************************************************************************)
Done(t) == th[t].pc = "done"

\* The value a dict holds for a key, Absent when it holds none.
Field(d, k) == IF Has(d, k) THEN d[k] ELSE Absent

\* Neither request began after the other had been answered.
Concurrent(p, q) == p # q /\ p \notin th[q].prior /\ q \notin th[p].prior

\* A register request that passed the checks of its body.
ValidRegister(t) ==
    /\ th[t].route = "register"
    /\ th[t].is_json
    /\ Truthy(Get(th[t].json, "username")) /\ IsStr(Get(th[t].json, "username"))
    /\ Truthy(Get(th[t].json, "password")) /\ IsStr(Get(th[t].json, "password"))

\* The credential record register writes for a body.
Credential(username, password) ==
    Put(Put(EmptyDict, "x-auth-user", username), "x-auth-key", password)

\* A push that was answered 200.
Pushed(t) == Done(t) /\ th[t].route = "push" /\ th[t].res.status = 200

\* The key (user, document) of an answered push, and the record it submitted.
PushKey(t) == <<th[t].headers["x-auth-user"].str, th[t].json["document"].str>>

Submitted(t) == PushRecord(th[t].json, th[t].res.body["timestamp"].num)

\* C1: of two concurrent valid register requests for one username, at most one
\* is answered 201, and the stored credential is the one of the request that
\* was answered 201.
C1_OneRegistrationWins ==
    \A p, q \in Threads :
        ( /\ Concurrent(p, q)
          /\ Done(p) /\ Done(q)
          /\ ValidRegister(p) /\ ValidRegister(q)
          /\ th[p].json["username"] = th[q].json["username"]
          /\ th[p].res.status = 201 )
        => /\ th[q].res.status # 201
           /\ fs[kss_auth_file(th[p].json["username"].str)].data
                = dumps(Credential(th[p].json["username"], th[p].json["password"]))

\* The document's record is a file of its own, not the user's auth.json.
OwnFile(user, document) == kss_path(user, document) # kss_auth_file(user)

\* C2: after two concurrent pushes to one (user, document) key have both been
\* answered, the stored record is the whole record of one of them. Stated of
\* the documents whose record is a file of its own.
C2_ConcurrentPushesLeaveOneRecord ==
    \A p, q \in Threads :
        ( /\ Concurrent(p, q)
          /\ Pushed(p) /\ Pushed(q)
          /\ PushKey(p) = PushKey(q)
          /\ OwnFile(PushKey(p)[1], PushKey(p)[2])
          /\ pushes[PushKey(p)] = 2 )
        => fs[kss_path(PushKey(p)[1], PushKey(p)[2])].data
             \in {dumps(Submitted(p)), dumps(Submitted(q))}

\* C3: the progress record a pull reads is always a complete one, and the
\* pull is answered 200, whatever pushes run at the same time.
C3_PullNeverSeesTornRecord ==
    [][\A t \in Threads :
          ( /\ th[t].pc = "pull_read" /\ th'[t].pc = "done"
            /\ th[t].path \notin {kss_auth_file(u) : u \in UserNames} )
          => /\ WellFormed(fs[th[t].path].data)
             /\ th'[t].res.status = 200]_vars

\* C4: the stored credential of a registered user is never changed or removed.
\* Stated of the steps of auth, push and pull requests; what concurrent
\* register requests do to it is C1.
C4_CredentialNeverChanges ==
    [][\A t \in Threads :
          (th[t].route # "register" /\ th'[t] # th[t])
          => \A u \in UserNames :
                creds[u] # Absent
                => /\ fs[kss_auth_file(u)]
                        = [exists |-> TRUE,
                           data |-> dumps(Credential(Str(u), creds[u]))]
                      => fs'[kss_auth_file(u)] = fs[kss_auth_file(u)]]_vars

\* C5: a step of a push or pull authenticated as one user leaves every
\* credential and progress record outside that user's namespace as it was.
C5_NamespacesIsolated ==
    [][\A t \in Threads :
          ( /\ th[t].route \in {"push", "pull"}
            /\ th[t].user # << >>
            /\ th'[t] # th[t] )
          => \A p \in FilePaths : p[1] # th[t].user[1] => fs'[p] = fs[p]]_vars

\* Thread t takes a request in this step.
Takes(t) == th'[t].id # th[t].id

\* Thread t takes a register request for a name that has been registered.
LaterRegister(t, u) ==
    /\ Takes(t)
    /\ th'[t].route = "register"
    /\ Field(th'[t].json, "username") = Str(u)
    /\ creds[u] # Absent

AlreadyExists == kss_error(402, "Username is already registered", 2002)

RegistrationDisabled == kss_error(403, "User registration disabled", 3001)

\* C6 as stated: once a name is registered, every later register request for
\* it is answered 402 / 2002 whatever its password is, and the stored
\* credential stays.
C6_LaterRegistrationAlreadyExists ==
    [][\A t \in Threads : \A u \in UserNames :
          LaterRegister(t, u)
          => /\ th'[t].pc = "done"
             /\ th'[t].res = AlreadyExists
             /\ fs' = fs]_vars

\* C6 as amended: once a name is registered, a later register request for it
\* is answered 402 / 2002 when its password is a non-empty str and 403 / 2003
\* when its password is missing, empty or not a str, and 403 / 3001 whatever
\* its password is once registration has been disabled; in every case the
\* stored credential stays.
C6_LaterRegistrationRefused ==
    [][\A t \in Threads : \A u \in UserNames :
          LaterRegister(t, u)
          => /\ th'[t].pc = "done"
             /\ th'[t].res = IF REGISTRATION_DISABLED THEN RegistrationDisabled
                             ELSE IF ValidRegister(t)' THEN AlreadyExists
                             ELSE InvalidRequest
             /\ fs' = fs
             /\ creds' = creds]_vars

\* A register request for a registered name, with another password, was
\* answered 402 after the registration had been answered 201.
C6_Witness ==
    \E p, q \in Threads :
        /\ Done(p) /\ ValidRegister(p) /\ th[p].res.status = 201
        /\ Done(q) /\ ValidRegister(q) /\ th[q].res = AlreadyExists
        /\ p \in th[q].prior
        /\ th[p].json["username"] = th[q].json["username"]
        /\ th[p].json["password"] # th[q].json["password"]
        /\ creds[th[p].json["username"].str] = th[p].json["password"]

\* A pull that was answered by its handler.
Pulled(t) == Done(t) /\ th[t].route = "pull"

\* C7: a pull that follows the only push to its (user, document) key returns
\* every field the push supplied (a numeric percentage, zero included) with
\* the pushed value, and the timestamp of the push response, which lies
\* between the server time at the start of the push and the server time now.
\* Stated of the documents whose record is a file of its own.
C7_PushPullRoundTrip ==
    \A p, q \in Threads :
        ( /\ Pushed(p) /\ Pulled(q)
          /\ p \in th[q].prior
          /\ th[q].headers = th[p].headers
          /\ th[q].res # Unauthorized
          /\ Str(th[q].document) = th[p].json["document"]
          /\ pushes[PushKey(p)] = 1
          /\ OwnFile(PushKey(p)[1], PushKey(p)[2])
          /\ Has(th[p].json, "percentage") => IsNum(th[p].json["percentage"]) )
        => /\ th[q].res.status = 200
           /\ \A k \in {"percentage", "progress", "device", "device_id"} :
                 Has(th[p].json, k) => Field(th[q].res.body, k) = th[p].json[k]
           /\ Field(th[q].res.body, "timestamp") = th[p].res.body["timestamp"]
           /\ th[p].began <= th[p].res.body["timestamp"].num
           /\ th[p].res.body["timestamp"].num <= now

\* C8: a pull answered 200 carries document = d, whether or not a record is
\* stored. Stated of the documents whose record is a file of its own.
C8_PullCarriesDocument ==
    \A q \in Threads :
        ( /\ Pulled(q) /\ th[q].res.status = 200
          /\ OwnFile(th[q].headers["x-auth-user"].str, th[q].document) )
        => Field(th[q].res.body, "document") = Str(th[q].document)

\* C9: a pull by an authenticated user of a document that user has never
\* pushed is answered 200 with the document and no other field.
C9_PullOfUnknownDocument ==
    [][\A t \in Threads :
          ( /\ th[t].pc \in {"pull", "pull_read"}
            /\ th'[t].pc = "done"
            /\ pushes[<<th[t].user, th[t].document>>] = 0 )
          => th'[t].res = kss_response(200, Put(EmptyDict, "document",
                                                Str(th[t].document)))]_vars

\* The headers of thread t's request name a registered user and its secret.
Authenticated(t) ==
    /\ Has(th[t].headers, "x-auth-user")
    /\ Has(th[t].headers, "x-auth-key")
    /\ creds[th[t].headers["x-auth-user"].str] = th[t].headers["x-auth-key"]

\* C10: a push or pull whose x-auth-key is missing or is not the secret
\* registered for x-auth-user is answered 401 / 2001, the same answer whether
\* or not the name is registered.
C10_UnauthorizedIsUniform ==
    \A t \in Threads :
        (Done(t) /\ th[t].route \in {"push", "pull"} /\ ~Authenticated(t))
        => th[t].res = Unauthorized

\* kss_auth returns to the handler of thread t in this step.
AuthDecided(t) ==
    /\ th'[t].route \in {"login", "push", "pull"}
    /\ th'[t].pc # "kss_auth_load"
    /\ Takes(t) \/ th[t].pc = "kss_auth_load"

\* The handler of thread t goes on as authenticated.
AuthSucceeded(t) ==
    IF th'[t].route = "login"
    THEN /\ th'[t].pc = "done"
         /\ th'[t].res = kss_response(200, Put(EmptyDict, "authorized", Str(<<"OK">>)))
    ELSE th'[t].pc = th'[t].route

\* Both headers are non-empty, a credential record is stored for the name in
\* x-auth-user and its secret is the x-auth-key.
SecretMatches(headers) ==
    /\ Truthy(Get(headers, "x-auth-user"))
    /\ Truthy(Get(headers, "x-auth-key"))
    /\ LET file == fs[kss_auth_file(headers["x-auth-user"].str)]
       IN  /\ file.exists
           /\ loads(file.data).ok
           /\ Field(loads(file.data).js, "x-auth-key") = headers["x-auth-key"]

\* C11: authentication succeeds exactly when both headers are non-empty and
\* the secret stored for the name equals the x-auth-key; in every other case
\* the request is answered 401 / 2001.
C11_AuthSucceedsIffSecretMatches ==
    [][\A t \in Threads :
          AuthDecided(t)
          => IF SecretMatches(th'[t].headers)
             THEN AuthSucceeded(t)
             ELSE th'[t].pc = "done" /\ th'[t].res = Unauthorized]_vars

\* The values the server clock has taken so far.
ServerTimes == {Num(n) : n \in 1..now}

\* C12: the timestamp of a stored record is the server clock read while the
\* push that wrote it was handled. The record a push writes, and the answer
\* to the push, carry the clock value of the push and not the timestamp of
\* its body; no file ever holds another timestamp, and no pull returns one.
C12_TimestampIsServerTime ==
    [][\A t \in Threads :
          /\ (th[t].pc = "push" /\ th'[t].pc = "push_parent")
             => th'[t].js["timestamp"] = Num(now)
          /\ (th[t].pc = "push_write" /\ th'[t].pc = "done")
             => /\ SubSeq(fs'[th[t].path].data, 1, Len(dumps(th[t].js)))
                     = dumps(th[t].js)
                /\ th'[t].res.body["timestamp"] = th[t].js["timestamp"]
                /\ th[t].js["timestamp"] \in ServerTimes
                /\ th[t].js["timestamp"].num >= th[t].began
          /\ (th[t].pc = "pull_read" /\ th'[t].pc = "done"
                /\ Has(th'[t].res.body, "timestamp"))
             => th'[t].res.body["timestamp"] \in ServerTimes
          /\ \A f \in FilePaths : \A i \in 1..Len(fs'[f].data) :
                fs'[f].data[i].k = "timestamp" => fs'[f].data[i].v \in ServerTimes]_vars

\* A push whose body carried a timestamp was answered, and a later pull of
\* its document returned the timestamp of the answer.
C12_Witness ==
    \E p, q \in Threads :
        /\ Pushed(p) /\ Field(th[p].json, "timestamp") = ClientTimestamp
        /\ Pulled(q) /\ p \in th[q].prior
        /\ th[q].headers = th[p].headers
        /\ Str(th[q].document) = th[p].json["document"]
        /\ Field(th[q].res.body, "timestamp") = th[p].res.body["timestamp"]
        /\ th[p].res.body["timestamp"] \in ServerTimes

\* C13: when a push completes, the stored record of its key is the record of
\* that push and nothing else: no field or byte of an earlier push is kept.
\* Stated of the documents whose record is a file of its own.
C13_LastPushWinsWholesale ==
    [][\A t \in Threads :
          ( /\ th[t].pc = "push_write" /\ th'[t].pc = "done"
            /\ th[t].path \notin {kss_auth_file(u) : u \in UserNames} )
          => fs'[th[t].path] = [exists |-> TRUE, data |-> dumps(th[t].js)]]_vars

\* The server crashes in this step.
Crashes == th' = [t \in Threads |-> Idle] /\ th' # th

\* The file is a complete credential record of the user.
CompleteCredential(file, user) ==
    /\ file.exists
    /\ \E k \in Secrets : file.data = dumps(Credential(Str(user), Str(k)))

\* C14: when the server crashes while a register request is between its
\* existence check and the end of its write, the name is left with a complete
\* credential record or with none.
C14_RegistrationCrashAtomic ==
    [][\A t \in Threads :
          ( /\ Crashes
            /\ th[t].route = "register"
            /\ th[t].pc \in {"register_parent", "register_mkdir",
                             "register_open", "register_write"} )
          => \/ fs'[th[t].path] = NoFile
             \/ CompleteCredential(fs'[th[t].path], th[t].user)]_vars

\* C15: while registration is disabled every register request, whatever its
\* body and whether or not its name is registered, is answered 403 / 3001,
\* and no file or directory changes.
C15_DisabledRegistrationRefused ==
    [][\A t \in Threads :
          (Takes(t) /\ th'[t].route = "register" /\ REGISTRATION_DISABLED)
          => /\ th'[t].pc = "done"
             /\ th'[t].res = RegistrationDisabled
             /\ fs' = fs
             /\ dirs' = dirs]_vars

\* With registration disabled, a register request with a valid body for a
\* name registered before the restart was answered 403 / 3001.
C15_Witness ==
    /\ REGISTRATION_DISABLED
    /\ \E p \in Threads :
          /\ Done(p) /\ ValidRegister(p) /\ th[p].res = RegistrationDisabled
          /\ creds[th[p].json["username"].str] # Absent

MissingDocument == kss_error(403, "Field 'document' not provided.", 2004)

\* C16: a push is rejected without writing anything. A push whose headers do
\* not carry the stored secret of its user is answered 401 / 2001 before its
\* body is read, and an authenticated push whose JSON body has no document,
\* or an empty one, is answered 403 / 2004; neither changes a file or a
\* directory.
C16_RejectedPushWritesNothing ==
    [][\A t \in Threads :
          /\ ( /\ AuthDecided(t) /\ th'[t].route = "push"
               /\ ~SecretMatches(th'[t].headers) )
             => /\ th'[t].pc = "done"
                /\ th'[t].res = Unauthorized
                /\ th'[t].json = EmptyDict
                /\ fs' = fs /\ dirs' = dirs
          /\ ( /\ th[t].pc = "push" /\ th'[t].pc \notin {"push", "idle"}
               /\ th'[t].is_json
               /\ ~Truthy(Get(th'[t].json, "document")) )
             => /\ th'[t].pc = "done"
                /\ th'[t].res = MissingDocument
                /\ fs' = fs /\ dirs' = dirs]_vars

\* Thread t takes a step of its handler.
Acts(t) == Takes(t) \/ th'[t].pc # th[t].pc

\* C19: no step of an auth request or of a pull request, whatever its answer,
\* changes a file or a directory.
C19_ReadOnlyRequestsChangeNothing ==
    [][\A t \in Threads :
          (Acts(t) /\ th'[t].route \in {"login", "pull"})
          => fs' = fs /\ dirs' = dirs]_vars

\* A pull of a stored record has been answered 200 with its timestamp.
C19_Witness ==
    \E p \in Threads :
        /\ Pulled(p) /\ th[p].res.status = 200 /\ Has(th[p].res.body, "timestamp")
        /\ fs[kss_path(th[p].headers["x-auth-user"].str, th[p].document)].exists

\* The record stored for the key of the answered push p, as loads reads it.
StoredFor(p) == loads(fs[kss_path(PushKey(p)[1], PushKey(p)[2])].data)

\* C20: the timestamp of the record stored for a key is never smaller than
\* the timestamp in the answer of a push to that key that has completed.
\* Stated of the states in which a whole record is stored, for the documents
\* whose record is a file of its own.
C20_StoredTimestampNeverGoesBack ==
    \A p \in Threads :
        ( /\ Pushed(p)
          /\ OwnFile(PushKey(p)[1], PushKey(p)[2])
          /\ StoredFor(p).ok
          /\ Has(StoredFor(p).js, "timestamp") )
        => StoredFor(p).js["timestamp"].num >= th[p].res.body["timestamp"].num

\* C17 as stated: for a stream shorter than size, whatever step is, the
\* partial digest is the digest of the whole stream.
C17_ShortStreamDigestIsFull ==
    (run.pc \in {"hashed", "changed"} /\ Len(run.file) < run.size)
    => run.digest = run.full

\* C17 as amended: for a stream shorter than size and not longer than step,
\* the partial digest is the digest of the whole stream.
C17_ShortStreamDigestIsFullFromStep ==
    ( /\ run.pc \in {"hashed", "changed"}
      /\ Len(run.file) < run.size
      /\ Len(run.file) <= run.step )
    => run.digest = run.full

\* A stream of two bytes or more, shorter than size and not longer than step,
\* has been hashed both ways.
C17_Witness ==
    /\ run.pc = "hashed"
    /\ Len(run.file) >= 2
    /\ Len(run.file) < run.size
    /\ Len(run.file) <= run.step
    /\ run.digest = run.full

\* The window [a, a + size) of the stream, clipped to its end.
Window(file, a, size) ==
    [j \in 1..(Min(a + size, Len(file)) - Min(a, Len(file))) |-> file[a + j]]

\* The rounds whose window is accumulated: those before the first empty one.
Accumulated(file, step, size) ==
    {i \in 0..9 : \A j \in 0..i : Window(file, step * 4 ^ j, size) # << >>}

\* The windows of rounds i, i + 1, ... that are accumulated, in order.
RECURSIVE Windows(_, _, _, _)
Windows(file, step, size, i) ==
    IF i \notin Accumulated(file, step, size) THEN << >>
    ELSE Window(file, step * 4 ^ i, size) \o Windows(file, step, size, i + 1)

\* The offsets (from 1) of the bytes that lie in an accumulated window.
Sampled(file, step, size) ==
    {k \in 1..Len(file) :
        \/ k <= size
        \/ \E i \in Accumulated(file, step, size) :
              step * 4 ^ i < k /\ k <= step * 4 ^ i + size}

\* C18: the accumulator is given the window [0, size) and then the windows
\* [step * 4^i, step * 4^i + size) for i = 0, 1, ..., 9 up to the first empty
\* one; changing a byte outside the accumulated windows leaves the
\* accumulated sequence and the digest as they were, and changing a byte
\* inside one changes the accumulated sequence.
C18_DigestOfTheWindows ==
    /\ run.pc \in {"hashed", "changed"}
       => run.digest = hexdigest(Window(run.file, 0, run.size)
                                   \o Windows(run.file, run.step, run.size, 0))
    /\ run.pc = "changed"
       => IF run.at \in Sampled(run.file, run.step, run.size)
          THEN run.other.md5 # run.digest.md5
          ELSE run.other = run.digest

\* Two windows of the loop were accumulated after the first sample, and a
\* byte between them was changed without changing the digest.
C18_Witness ==
    /\ run.pc = "changed"
    /\ run.step >= 1
    /\ Accumulated(run.file, run.step, run.size) = {0, 1}
    /\ run.at \notin Sampled(run.file, run.step, run.size)
    /\ run.at < Len(run.file)
    /\ run.other = run.digest

====
